---- MODULE Spec2Model ----
(***************************************************************************)
(* fish_key_reader: the key-event decoding loop (process_input), the exit  *)
(* detector (should_exit), the terminfo sequence matcher (sequence_name),  *)
(* the symbol formatter (char_to_symbol), the bind-command accumulator     *)
(* (output_bind_command), the signal handler and the loop that installs   *)
(* it (install_our_signal_handlers), as one state machine.                 *)
(*                                                                         *)
(* Text is modelled as TLA+ strings, one string per output line; the two   *)
(* streams stdout and stderr are sequences of lines.  A signal handler     *)
(* runs between the statements of process_input's loop.                    *)
(***************************************************************************)
EXTENDS Integers, Sequences, FiniteSets, TLC

VARIABLES
    pc,               \* position of the main flow in setup_and_process_keys / process_input
    keep_running,     \* static bool keep_running
    continuous_mode,  \* the -c flag
    first_char_seen,  \* process_input local
    prev_tstamp,      \* process_input local, in microseconds (0 = 0.0)
    now,              \* the wall clock read by timef(), in microseconds
    bind_chars,       \* process_input local: the accumulator
    exit_recent,      \* should_exit's static recent_chars[4]
    seq_recent,       \* sequence_name's static recent_chars[8]
    evt,              \* the event of the current iteration
    interrupted,      \* the latch read by reader_test_and_clear_interrupted()
    shell_modes,      \* shell_modes.c_cc[VINTR], shell_modes.c_cc[VEOF]
    terminfo,         \* the terminfo table behind input_terminfo_get_name()
    old_sigactions,   \* static struct sigaction old_sigactions[32]
    install_signo,    \* install_our_signal_handlers: the loop variable signo
    prior_sigactions, \* environment: the dispositions the process was started with
    out,              \* stdout, a sequence of lines
    err,              \* stderr, a sequence of pieces of text
    keys,             \* environment: the code points the keyboard can deliver
    sigs,             \* environment: the signal numbers that can be delivered
    delays,           \* environment: the time a read can take, in microseconds
    inputs,           \* history: number of environment inputs so far
    events,           \* history: the events obtained by the loop, in order
    exit_log,         \* history: should_exit's return value per character event
    name_log,         \* history: sequence_name's return value per character event
    flushed,          \* history: the accumulator contents of every emitted 'bind' line
    reads_after_stop, \* history: events read from the queue since keep_running fell
    calls,            \* history: the teardown calls, each with the number of events so far
    chained,          \* history: the calls of previously installed signal handlers
    delivered         \* history: the signal numbers delivered to signal_handler

vars == <<pc, keep_running, continuous_mode, first_char_seen, prev_tstamp, now,
          bind_chars, exit_recent, seq_recent, evt, interrupted, shell_modes,
          terminfo, old_sigactions, install_signo, prior_sigactions, out, err, keys,
          sigs, delays, inputs, events,
          exit_log, name_log, flushed, reads_after_stop, calls, chained, delivered>>

(***************************************************************************)
(* Bounds of the exploration.                                              *)
(***************************************************************************)
MaxInputs == 5

\* Signal deliveries while install_our_signal_handlers runs.
MaxDeliveries == 2

(***************************************************************************)
(* Program constants.                                                      *)
(***************************************************************************)
SIGHUP == 1
SIGINT == 2
SIGABRT == 6
SIGSEGV == 11
SIGTERM == 15
SIGWINCH == 28

\* The non-character event of readch_timed (timeout, eof, ...).
NoChar == -1

(***************************************************************************)
(* Text helpers: what the printf conversions %c, %X, %04X, %4X produce.    *)
(***************************************************************************)
\* The characters 0x20 .. 0x5F and 0x61 .. 0x7E in code order.  A TLA+ string
\* cannot hold the grave accent 0x60, which is written GraveText.
AsciiLow == " !\"#$%&'()*+,-./0123456789:;<=>?@ABCDEFGHIJKLMNOPQRSTUVWXYZ[\\]^_"

AsciiHigh == "abcdefghijklmnopqrstuvwxyz{|}~"

GraveText == "<grave>"

\* %c of a code 0x20 .. 0x7E
FmtC(c) == IF c < 96 THEN SubSeq(AsciiLow, c - 31, c - 31)
           ELSE IF c = 96 THEN GraveText
           ELSE SubSeq(AsciiHigh, c - 96, c - 96)

HexDigits == "0123456789ABCDEF"

RECURSIVE FmtX(_)
\* %X
FmtX(n) == IF n < 16 THEN SubSeq(HexDigits, n + 1, n + 1)
           ELSE FmtX(n \div 16) \o SubSeq(HexDigits, (n % 16) + 1, (n % 16) + 1)

RECURSIVE PadLeft(_, _, _)
PadLeft(s, width, fill) == IF Len(s) >= width THEN s ELSE PadLeft(fill \o s, width, fill)

\* %04X, %06X
FmtX0(n, width) == PadLeft(FmtX(n), width, "0")

\* %4X
FmtXsp(n, width) == PadLeft(FmtX(n), width, " ")

(***************************************************************************)
(* The symbol formatter.                                                   *)
(***************************************************************************)
\* ctrl_symbolic_names with a NULL entry at index 27.
ctrl_symbolic_names_withoutEsc(wc) ==
    CASE wc = 7 -> "\\a" [] wc = 8 -> "\\b" [] wc = 9 -> "\\t" [] wc = 10 -> "\\n"
      [] wc = 11 -> "\\v" [] wc = 12 -> "\\f" [] wc = 13 -> "\\r"
      [] OTHER -> ""

\* ctrl_symbolic_names[wc]: "" stands for NULL.
ctrl_symbolic_names(wc) ==
    CASE wc = 7 -> "\\a" [] wc = 8 -> "\\b" [] wc = 9 -> "\\t" [] wc = 10 -> "\\n"
      [] wc = 11 -> "\\v" [] wc = 12 -> "\\f" [] wc = 13 -> "\\r" [] wc = 27 -> "\\e"
      [] OTHER -> ""

\* must_escape with the double quote missing from the literal.
must_escape_withoutQuote(wc) ==
    wc \in {91, 93, 40, 41, 60, 62, 123, 125, 42, 92, 63, 36, 35, 59, 38, 124, 39, 0}

\* The code points of the literal of line 97; wcschr also finds the literal's
\* terminating NUL.
must_escape(wc) ==
    wc \in {91, 93, 40, 41, 60, 62, 123, 125, 42, 92, 63, 36, 35, 59, 38, 124, 39, 34, 0}

ctrl_to_symbol(wc, bind_friendly) ==
    IF ctrl_symbolic_names(wc) # ""
    THEN IF bind_friendly
         THEN ctrl_symbolic_names(wc)
         ELSE "\\c" \o FmtC(wc + 64) \o "  (or " \o ctrl_symbolic_names(wc) \o ")"
    ELSE "\\c" \o FmtC(wc + 64)

space_to_symbol(wc, bind_friendly) ==
    IF bind_friendly THEN "\\x" \o FmtX(wc) ELSE "\\x" \o FmtX(wc) \o "  (aka \"space\")"

del_to_symbol(wc, bind_friendly) ==
    IF bind_friendly THEN "\\x" \o FmtX(wc) ELSE "\\x" \o FmtX(wc) \o "  (aka \"del\")"

ascii_printable_to_symbol(wc, bind_friendly) ==
    IF bind_friendly /\ must_escape(wc) THEN "\\" \o FmtC(wc) ELSE FmtC(wc)

char_to_symbol(wc, bind_friendly) ==
    IF wc < 32 THEN ctrl_to_symbol(wc, bind_friendly)
    ELSE IF wc = 32 THEN space_to_symbol(wc, bind_friendly)
    ELSE IF wc = 127 THEN del_to_symbol(wc, bind_friendly)
    ELSE IF wc < 128 THEN ascii_printable_to_symbol(wc, bind_friendly)
    ELSE IF wc <= 65535 THEN "\\u" \o FmtX0(wc, 4)
    ELSE "\\U" \o FmtX0(wc, 6)

(***************************************************************************)
(* The exit detector.                                                      *)
(***************************************************************************)
\* unsigned char c = wc < 0x80 ? wc : 0
Narrow(wc) == IF wc < 128 THEN wc ELSE 0

\* recent_chars[0] = recent_chars[1]; ...; recent_chars[n-1] = c
Shift(recent_chars, c) == Append(Tail(recent_chars), c)

PressAgain(cc) == "Press [ctrl-" \o FmtC(cc + 64) \o "] again to exit\n"

\* IsExitWord that knows "exit" only.
IsExitWord_exitOnly(recent_chars) == recent_chars = <<101, 120, 105, 116>>

\* memcmp(recent_chars, "exit", 4) == 0 || memcmp(recent_chars, "quit", 4) == 0
IsExitWord(recent_chars) ==
    recent_chars = <<101, 120, 105, 116>> \/ recent_chars = <<113, 117, 105, 116>>

\* should_exit comparing the new byte with recent_chars[1], two slots behind it.
should_exit_twoBehind(recent_chars, wc, modes) ==
    LET c == Narrow(wc)
        r == Shift(recent_chars, c)
    IN  IF c = modes.VINTR
        THEN IF r[2] = modes.VINTR
             THEN [recent_chars |-> r, ret |-> TRUE, printed |-> <<>>]
             ELSE [recent_chars |-> r, ret |-> FALSE, printed |-> <<PressAgain(modes.VINTR)>>]
        ELSE IF c = modes.VEOF
        THEN IF r[2] = modes.VEOF
             THEN [recent_chars |-> r, ret |-> TRUE, printed |-> <<>>]
             ELSE [recent_chars |-> r, ret |-> FALSE, printed |-> <<PressAgain(modes.VEOF)>>]
        ELSE [recent_chars |-> r, ret |-> IsExitWord(r), printed |-> <<>>]

\* The window after the call, the return value and what is printed on stderr.
\* recent_chars[2] of the code is the third element here.
should_exit(recent_chars, wc, modes) ==
    LET c == Narrow(wc)
        r == Shift(recent_chars, c)
    IN  IF c = modes.VINTR
        THEN IF r[3] = modes.VINTR
             THEN [recent_chars |-> r, ret |-> TRUE, printed |-> <<>>]
             ELSE [recent_chars |-> r, ret |-> FALSE, printed |-> <<PressAgain(modes.VINTR)>>]
        ELSE IF c = modes.VEOF
        THEN IF r[3] = modes.VEOF
             THEN [recent_chars |-> r, ret |-> TRUE, printed |-> <<>>]
             ELSE [recent_chars |-> r, ret |-> FALSE, printed |-> <<PressAgain(modes.VEOF)>>]
        ELSE [recent_chars |-> r, ret |-> IsExitWord(r), printed |-> <<>>]

(***************************************************************************)
(* The terminfo sequence matcher.                                          *)
(***************************************************************************)
RECURSIVE input_terminfo_get_name(_, _)
\* The name of the first mapping of the table whose sequence is seq; "" when
\* there is none (the function returns false).
input_terminfo_get_name(seq, table) ==
    IF table = <<>> THEN ""
    ELSE IF Head(table).seq = seq THEN Head(table).name
    ELSE input_terminfo_get_name(seq, Tail(table))

RECURSIVE sequence_name_loop(_, _, _)
\* for (int idx = 7; idx >= 0; idx--): the suffix recent_chars + idx of length
\* 8 - idx is looked up; the first one found is returned.
sequence_name_loop(recent_chars, idx, table) ==
    IF idx < 0 THEN ""
    ELSE LET found == input_terminfo_get_name(SubSeq(recent_chars, idx + 1, 8), table)
         IN  IF found # "" THEN found
             ELSE sequence_name_loop(recent_chars, idx - 1, table)

\* The window after the call and the name returned ("" stands for NULL).
sequence_name(recent_chars, wc, table) ==
    LET r == Shift(recent_chars, Narrow(wc))
    IN  [recent_chars |-> r, name |-> sequence_name_loop(r, 7, table)]

(***************************************************************************)
(* The bind-command accumulator and the other output functions.            *)
(***************************************************************************)
\* add_char_to_bind_command pushing at the front.
add_char_to_bind_command_atFront(wc, chars) == <<wc>> \o chars

add_char_to_bind_command(wc, chars) == Append(chars, wc)

RECURSIVE bind_symbols(_, _)
\* for (i = 0; i < bind_chars.size(); i++) fputws(char_to_symbol(bind_chars[i], true))
bind_symbols(chars, i) ==
    IF i > Len(chars) THEN ""
    ELSE char_to_symbol(chars[i], TRUE) \o bind_symbols(chars, i + 1)

\* output_bind_command without bind_chars.clear().
output_bind_command_noClear(chars) ==
    IF Len(chars) # 0
    THEN [printed |-> <<"bind " \o bind_symbols(chars, 1) \o " 'do something'\n">>,
          bind_chars |-> chars]
    ELSE [printed |-> <<>>, bind_chars |-> chars]

\* The lines written to stdout and the accumulator after the call.
output_bind_command(chars) ==
    IF Len(chars) # 0
    THEN [printed |-> <<"bind " \o bind_symbols(chars, 1) \o " 'do something'\n">>,
          bind_chars |-> <<>>]
    ELSE [printed |-> <<>>, bind_chars |-> chars]

output_info_about_char(wc) ==
    "hex: " \o FmtXsp(wc, 4) \o "  char: " \o char_to_symbol(wc, FALSE) \o "\n"

\* The line written to stdout for a name, nothing for NULL.
output_matching_key_name(name) ==
    IF name # "" THEN <<"bind -k " \o name \o " 'do something'\n">> ELSE <<>>

\* output_elapsed_time printing the line break without looking at first_char_seen.
output_elapsed_time_ignoresSeen(prev, seen, clock) ==
    LET delta_tstamp_us == clock - prev
    IN  (IF delta_tstamp_us >= 200000 THEN <<"\n">> ELSE <<>>)
        \o (IF delta_tstamp_us >= 1000000
            THEN <<"              ">>
            ELSE <<"(" \o PadLeft(ToString(delta_tstamp_us \div 1000), 3, " ") \o "."
                   \o PadLeft(ToString(delta_tstamp_us % 1000), 3, "0") \o " ms)  ">>)

\* What output_elapsed_time prints on stderr; it returns now.  Time is kept in
\* whole microseconds.
output_elapsed_time(prev, seen, clock) ==
    LET delta_tstamp_us == clock - prev
    IN  (IF delta_tstamp_us >= 200000 /\ seen THEN <<"\n">> ELSE <<>>)
        \o (IF delta_tstamp_us >= 1000000
            THEN <<"              ">>
            ELSE <<"(" \o PadLeft(ToString(delta_tstamp_us \div 1000), 3, " ") \o "."
                   \o PadLeft(ToString(delta_tstamp_us % 1000), 3, "0") \o " ms)  ">>)

(***************************************************************************)
(* The signal handler.                                                     *)
(***************************************************************************)
\* The name sig2wcs gives a signal number.
sig2wcs(signo) ==
    CASE signo = SIGHUP -> "SIGHUP" [] signo = SIGINT -> "SIGINT"
      [] signo = SIGABRT -> "SIGABRT" [] signo = SIGSEGV -> "SIGSEGV"
      [] signo = SIGTERM -> "SIGTERM" [] signo = SIGWINCH -> "SIGWINCH"
      [] OTHER -> "SIG" \o ToString(signo)

\* IsTerminating with SIGSEGV left out of the test.
IsTerminating_withoutSegv(signo) ==
    signo = SIGHUP \/ signo = SIGTERM \/ signo = SIGABRT

\* if (signo == SIGHUP || signo == SIGTERM || signo == SIGABRT || signo == SIGSEGV)
IsTerminating(signo) ==
    signo = SIGHUP \/ signo = SIGTERM \/ signo = SIGABRT \/ signo = SIGSEGV

\* signal_handler_flag clearing keep_running for every signal.
signal_handler_flag_always(signo, flag) == FALSE

\* keep_running after the handler ran for signo.
signal_handler_flag(signo, flag) == IF IsTerminating(signo) THEN FALSE ELSE flag

\* The calls of the previously installed handler that the handler makes.
signal_handler_chain(signo, old) ==
    IF old[signo].sa_handler # "SIG_IGN" /\ old[signo].sa_handler # "SIG_DFL"
    THEN IF old[signo].sa_siginfo
         THEN <<<<"sa_sigaction", signo>>>>
         ELSE <<<<"sa_handler", signo>>>>
    ELSE <<>>

signal_handler_line(signo) ==
    "signal #" \o ToString(signo) \o " (" \o sig2wcs(signo) \o ") received\n"

(***************************************************************************)
(* The environments of the specifications.                                 *)
(***************************************************************************)
SigNums == 1 .. 31

DefaultSigaction == [sa_handler |-> "SIG_DFL", sa_siginfo |-> FALSE]

\* The dispositions found by install_our_signal_handlers in a session started
\* from a shell that handles SIGINT.
SessionSigactions ==
    [n \in SigNums |-> IF n = SIGINT
                       THEN [sa_handler |-> "handler", sa_siginfo |-> FALSE]
                       ELSE DefaultSigaction]

\* ctrl-C and ctrl-D, the usual c_cc[VINTR] and c_cc[VEOF].
UsualModes == [VINTR |-> 3, VEOF |-> 4]

\* ctrl-C and the letters of "exit".
SessionKeys == {3, 101, 105, 116, 120}

\* The time a read takes: 1 ms.
SessionDelays == {1000}

\* The clock when the session starts.
StartUs == 5 * 1000000

HelpText(modes) ==
    <<"\n", "To terminate this program type \"exit\" or \"quit\" in this window,\n",
      "or press [ctrl-" \o FmtC(modes.VINTR + 64) \o "] or [ctrl-"
          \o FmtC(modes.VEOF + 64) \o "] twice in a row.\n",
      "\n">>

(***************************************************************************)
(* The state when process_input reaches its loop for the first time:       *)
(* setup_and_process_keys has installed the handlers and printed the help  *)
(* text, process_input has printed its prompt.                             *)
(***************************************************************************)
InitWith(modes, table, keyboard, signals, readDelays, dispositions) ==
    /\ pc = "while"
    /\ keep_running = TRUE
    /\ continuous_mode \in BOOLEAN
    /\ first_char_seen = FALSE
    /\ prev_tstamp = 0
    /\ now = StartUs
    /\ bind_chars = <<>>
    /\ exit_recent = <<0, 0, 0, 0>>
    /\ seq_recent = <<0, 0, 0, 0, 0, 0, 0, 0>>
    /\ evt = NoChar
    /\ interrupted = FALSE
    /\ shell_modes = modes
    /\ terminfo = table
    /\ old_sigactions = dispositions
    /\ install_signo = 32
    /\ prior_sigactions = dispositions
    /\ out = <<>>
    /\ err = (IF continuous_mode THEN HelpText(modes) ELSE <<>>) \o <<"Press a key\n\n">>
    /\ keys = keyboard
    /\ sigs = signals
    /\ delays = readDelays
    /\ inputs = 0
    /\ events = <<>>
    /\ exit_log = <<>>
    /\ name_log = <<>>
    /\ flushed = <<>>
    /\ reads_after_stop = 0
    /\ calls = <<>>
    /\ chained = <<>>
    /\ delivered = <<>>

\* A terminfo table: "backspace" is DEL and "sdc" is ESC DEL.
SessionTable ==
    << [seq |-> <<127>>, name |-> "backspace"],
       [seq |-> <<27, 127>>, name |-> "sdc"] >>

\* ctrl-C, ESC and DEL.
SessionMatchKeys == {3, 27, 127}

\* A session: either the keyboard of SessionKeys on a terminal without named
\* sequences, with SIGINT and SIGTERM, or the keyboard of SessionMatchKeys on a
\* terminal with SessionTable, with SIGTERM.
SessionEnvs ==
    { [table |-> <<>>, keys |-> SessionKeys, sigs |-> {SIGINT, SIGTERM}],
      [table |-> SessionTable, keys |-> SessionMatchKeys, sigs |-> {SIGTERM}] }

Init ==
    \E e \in SessionEnvs :
        InitWith(UsualModes, e.table, e.keys, e.sigs, SessionDelays, SessionSigactions)

\* ctrl-C only.
SignalKeys == {3}

\* The four terminating signals and two others.
SignalSigs == {SIGHUP, SIGINT, SIGABRT, SIGSEGV, SIGTERM, SIGWINCH}

\* A session in which any of SignalSigs is delivered.
InitSignals == InitWith(UsualModes, <<>>, SignalKeys, SignalSigs, SessionDelays,
                        SessionSigactions)

\* c_cc[VINTR] is 0 after "stty intr undef" where _POSIX_VDISABLE is 0.
InterruptDisabledModes == [VINTR |-> 0, VEOF |-> 4]

\* Keyboards: the letters of "exit" and ctrl-C; the letters of "quit" and
\* ctrl-D; ctrl-C, ctrl-D, "a" and U+00E9.
KeyEnvs == { {3, 101, 105, 116, 120}, {4, 105, 113, 116, 117}, {3, 4, 97, 233} }

\* A session on one of these keyboards, without signals.
InitKeys ==
    \E k \in KeyEnvs : InitWith(UsualModes, <<>>, k, {}, SessionDelays, SessionSigactions)

\* NUL, ctrl-D, "a" and U+00E9.
DisabledKeys == {0, 4, 97, 233}

\* A session on a terminal whose interrupt character is disabled, without signals.
InitDisabled ==
    InitWith(InterruptDisabledModes, <<>>, DisabledKeys, {}, SessionDelays,
             SessionSigactions)

\* A terminfo table: "up" is ESC [ A, "backspace" is DEL, and "sdc" is ESC DEL,
\* of which the sequence of "backspace" is a proper suffix.
MatchTable ==
    << [seq |-> <<27, 91, 65>>, name |-> "up"],
       [seq |-> <<127>>, name |-> "backspace"],
       [seq |-> <<27, 127>>, name |-> "sdc"] >>

\* ESC, "[", "A" and DEL.
MatchKeys == {27, 65, 91, 127}

\* A session on a terminal with this table, without signals.
InitMatch == InitWith(UsualModes, MatchTable, MatchKeys, {}, SessionDelays,
                      SessionSigactions)

\* What process_input and the teardown never change.
env == <<continuous_mode, shell_modes, terminfo, old_sigactions, install_signo,
         prior_sigactions, keys, sigs, delays>>

(***************************************************************************)
(* process_input, one action per statement of the loop.                    *)
(***************************************************************************)
\* while (keep_running)
LoopTest ==
    /\ pc = "while"
    /\ pc' = IF keep_running THEN "read" ELSE "restore_term_mode"
    /\ UNCHANGED <<keep_running, first_char_seen, prev_tstamp, now, bind_chars,
                   exit_recent, seq_recent, evt, interrupted, out, err, inputs, events,
                   exit_log, name_log, flushed, reads_after_stop, calls, chained, delivered, env>>

\* ReadInterrupted testing the latch without clearing it.
ReadInterrupted_keepsLatch ==
    /\ pc = "read"
    /\ interrupted
    /\ evt' = shell_modes.VINTR
    /\ events' = Append(events, shell_modes.VINTR)
    /\ pc' = "dispatch"
    /\ UNCHANGED <<keep_running, first_char_seen, prev_tstamp, now, bind_chars,
                   exit_recent, seq_recent, out, err, inputs, interrupted,
                   exit_log, name_log, flushed, reads_after_stop, calls, chained, delivered, env>>

\* if (reader_test_and_clear_interrupted()) evt = char_event_t{shell_modes.c_cc[VINTR]}
ReadInterrupted ==
    /\ pc = "read"
    /\ interrupted
    /\ interrupted' = FALSE
    /\ evt' = shell_modes.VINTR
    /\ events' = Append(events, shell_modes.VINTR)
    /\ pc' = "dispatch"
    /\ UNCHANGED <<keep_running, first_char_seen, prev_tstamp, now, bind_chars,
                   exit_recent, seq_recent, out, err, inputs,
                   exit_log, name_log, flushed, reads_after_stop, calls, chained, delivered, env>>

\* else evt = queue.readch_timed(true): a character or a non-character event,
\* after some time.
ReadQueue(e, d) ==
    /\ pc = "read"
    /\ ~interrupted
    /\ inputs < MaxInputs
    /\ inputs' = inputs + 1
    /\ evt' = e
    /\ now' = now + d
    /\ events' = Append(events, e)
    /\ reads_after_stop' = IF keep_running THEN reads_after_stop ELSE reads_after_stop + 1
    /\ pc' = "dispatch"
    /\ UNCHANGED <<keep_running, first_char_seen, prev_tstamp, bind_chars,
                   exit_recent, seq_recent, interrupted, out, err,
                   exit_log, name_log, flushed, calls, chained, delivered, env>>

ReadChar == \E k \in keys, d \in delays : ReadQueue(k, d)

ReadNoChar == \E d \in delays : ReadQueue(NoChar, d)

\* NonCharEvent clearing the window of should_exit.
NonCharEvent_resetsWindow ==
    /\ pc = "dispatch"
    /\ evt = NoChar
    /\ LET o == output_bind_command(bind_chars)
       IN  /\ out' = out \o o.printed
           /\ bind_chars' = o.bind_chars
           /\ flushed' = IF o.printed # <<>> THEN Append(flushed, bind_chars) ELSE flushed
    /\ exit_recent' = <<0, 0, 0, 0>>
    /\ pc' = IF first_char_seen /\ ~continuous_mode THEN "restore_term_mode" ELSE "while"
    /\ UNCHANGED <<keep_running, first_char_seen, prev_tstamp, now,
                   seq_recent, evt, interrupted, err, inputs, events,
                   exit_log, name_log, reads_after_stop, calls, chained, delivered, env>>

\* NonCharEvent without the call of output_bind_command.
NonCharEvent_noFlush ==
    /\ pc = "dispatch"
    /\ evt = NoChar
    /\ pc' = IF first_char_seen /\ ~continuous_mode THEN "restore_term_mode" ELSE "while"
    /\ UNCHANGED <<keep_running, first_char_seen, prev_tstamp, now, bind_chars, out, flushed,
                   exit_recent, seq_recent, evt, interrupted, err, inputs, events,
                   exit_log, name_log, reads_after_stop, calls, chained, delivered, env>>

\* NonCharEvent returning without the test of continuous_mode.
NonCharEvent_ignoresMode ==
    /\ pc = "dispatch"
    /\ evt = NoChar
    /\ LET o == output_bind_command(bind_chars)
       IN  /\ out' = out \o o.printed
           /\ bind_chars' = o.bind_chars
           /\ flushed' = IF o.printed # <<>> THEN Append(flushed, bind_chars) ELSE flushed
    /\ pc' = IF first_char_seen THEN "restore_term_mode" ELSE "while"
    /\ UNCHANGED <<keep_running, first_char_seen, prev_tstamp, now,
                   exit_recent, seq_recent, evt, interrupted, err, inputs, events,
                   exit_log, name_log, reads_after_stop, calls, chained, delivered, env>>

\* NonCharEvent with the early return leaving the process at once (exit instead
\* of return), so that the teardown of setup_and_process_keys is skipped.
NonCharEvent_exits ==
    /\ pc = "dispatch"
    /\ evt = NoChar
    /\ LET o == output_bind_command(bind_chars)
       IN  /\ out' = out \o o.printed
           /\ bind_chars' = o.bind_chars
           /\ flushed' = IF o.printed # <<>> THEN Append(flushed, bind_chars) ELSE flushed
    /\ pc' = IF first_char_seen /\ ~continuous_mode THEN "done" ELSE "while"
    /\ UNCHANGED <<keep_running, first_char_seen, prev_tstamp, now,
                   exit_recent, seq_recent, evt, interrupted, err, inputs, events,
                   exit_log, name_log, reads_after_stop, calls, chained, delivered, env>>

\* if (!evt.is_char()) { output_bind_command(bind_chars);
\*                       if (first_char_seen && !continuous_mode) return; continue; }
NonCharEvent ==
    /\ pc = "dispatch"
    /\ evt = NoChar
    /\ LET o == output_bind_command(bind_chars)
       IN  /\ out' = out \o o.printed
           /\ bind_chars' = o.bind_chars
           /\ flushed' = IF o.printed # <<>> THEN Append(flushed, bind_chars) ELSE flushed
    /\ pc' = IF first_char_seen /\ ~continuous_mode THEN "restore_term_mode" ELSE "while"
    /\ UNCHANGED <<keep_running, first_char_seen, prev_tstamp, now,
                   exit_recent, seq_recent, evt, interrupted, err, inputs, events,
                   exit_log, name_log, reads_after_stop, calls, chained, delivered, env>>

\* wc = evt.get_char(); prev_tstamp = output_elapsed_time(prev_tstamp, first_char_seen);
\* add_char_to_bind_command(wc, bind_chars); output_info_about_char(wc);
CharEvent ==
    /\ pc = "dispatch"
    /\ evt # NoChar
    /\ err' = err \o output_elapsed_time(prev_tstamp, first_char_seen, now)
                  \o <<output_info_about_char(evt)>>
    /\ prev_tstamp' = now
    /\ bind_chars' = add_char_to_bind_command(evt, bind_chars)
    /\ pc' = "match"
    /\ UNCHANGED <<keep_running, first_char_seen, now,
                   exit_recent, seq_recent, evt, interrupted, out, inputs, events,
                   exit_log, name_log, flushed, reads_after_stop, calls, chained, delivered, env>>

\* if (output_matching_key_name(wc)) { output_bind_command(bind_chars); }
MatchKeyName ==
    /\ pc = "match"
    /\ LET m == sequence_name(seq_recent, evt, terminfo)
           o == IF m.name # "" THEN output_bind_command(bind_chars)
                ELSE [printed |-> <<>>, bind_chars |-> bind_chars]
       IN  /\ seq_recent' = m.recent_chars
           /\ name_log' = Append(name_log, m.name)
           /\ out' = out \o output_matching_key_name(m.name) \o o.printed
           /\ bind_chars' = o.bind_chars
           /\ flushed' = IF o.printed # <<>> THEN Append(flushed, bind_chars) ELSE flushed
    /\ pc' = "exit"
    /\ UNCHANGED <<keep_running, first_char_seen, prev_tstamp, now,
                   exit_recent, evt, interrupted, err, inputs, events,
                   exit_log, reads_after_stop, calls, chained, delivered, env>>

\* if (should_exit(wc)) { fwprintf(stderr, "\nExiting at your request.\n"); break; }
\* first_char_seen = true;
ExitCheck ==
    /\ pc = "exit"
    /\ LET x == should_exit(exit_recent, evt, shell_modes)
       IN  /\ exit_recent' = x.recent_chars
           /\ exit_log' = Append(exit_log, x.ret)
           /\ err' = err \o x.printed
                         \o (IF x.ret THEN <<"\nExiting at your request.\n">> ELSE <<>>)
           /\ first_char_seen' = IF x.ret THEN first_char_seen ELSE TRUE
           /\ pc' = IF x.ret THEN "restore_term_mode" ELSE "while"
    /\ UNCHANGED <<keep_running, prev_tstamp, now, bind_chars,
                   seq_recent, evt, interrupted, out, inputs, events,
                   name_log, flushed, reads_after_stop, calls, chained, delivered, env>>

(***************************************************************************)
(* setup_and_process_keys after process_input has returned.                *)
(***************************************************************************)
\* restore_term_mode();
RestoreTermMode ==
    /\ pc = "restore_term_mode"
    /\ calls' = Append(calls, <<"restore_term_mode", Len(events)>>)
    /\ pc' = "restore_pgrp"
    /\ UNCHANGED <<keep_running, first_char_seen, prev_tstamp, now, bind_chars,
                   exit_recent, seq_recent, evt, interrupted, out, err, inputs, events,
                   exit_log, name_log, flushed, reads_after_stop, chained, delivered, env>>

\* restore_term_foreground_process_group(); then main returns 0.
RestoreForegroundProcessGroup ==
    /\ pc = "restore_pgrp"
    /\ calls' = Append(calls, <<"restore_term_foreground_process_group", Len(events)>>)
    /\ pc' = "done"
    /\ UNCHANGED <<keep_running, first_char_seen, prev_tstamp, now, bind_chars,
                   exit_recent, seq_recent, evt, interrupted, out, err, inputs, events,
                   exit_log, name_log, flushed, reads_after_stop, chained, delivered, env>>

(***************************************************************************)
(* The environment: signals and the interrupt latch.                       *)
(***************************************************************************)
\* A signal is delivered to signal_handler, at any point before the process exits.
SignalHandler(signo) ==
    /\ pc # "done"
    /\ inputs < MaxInputs
    /\ inputs' = inputs + 1
    /\ out' = Append(out, signal_handler_line(signo))
    /\ keep_running' = signal_handler_flag(signo, keep_running)
    /\ chained' = chained \o signal_handler_chain(signo, old_sigactions)
    /\ delivered' = Append(delivered, signo)
    /\ UNCHANGED <<pc, first_char_seen, prev_tstamp, now, bind_chars,
                   exit_recent, seq_recent, evt, interrupted, err, events,
                   exit_log, name_log, flushed, reads_after_stop, calls, env>>

Signal == \E signo \in sigs : SignalHandler(signo)

\* An interrupt request is latched for reader_test_and_clear_interrupted().
LatchInterrupt ==
    /\ pc \in {"while", "read", "dispatch", "match", "exit"}
    /\ ~interrupted
    /\ inputs < MaxInputs
    /\ inputs' = inputs + 1
    /\ interrupted' = TRUE
    /\ UNCHANGED <<pc, keep_running, first_char_seen, prev_tstamp, now, bind_chars,
                   exit_recent, seq_recent, evt, out, err, events,
                   exit_log, name_log, flushed, reads_after_stop, calls, chained, delivered, env>>

Next ==
    \/ LoopTest
    \/ ReadInterrupted
    \/ ReadChar
    \/ ReadNoChar
    \/ NonCharEvent
    \/ CharEvent
    \/ MatchKeyName
    \/ ExitCheck
    \/ RestoreTermMode
    \/ RestoreForegroundProcessGroup
    \/ Signal
    \/ LatchInterrupt

Spec == Init /\ [][Next]_vars

\* The main flow alone: no signal and no latched interrupt.
NextMain ==
    \/ LoopTest
    \/ ReadChar
    \/ ReadNoChar
    \/ NonCharEvent
    \/ CharEvent
    \/ MatchKeyName
    \/ ExitCheck
    \/ RestoreTermMode
    \/ RestoreForegroundProcessGroup

SpecKeys == InitKeys /\ [][NextMain]_vars

SpecMatch == InitMatch /\ [][NextMain]_vars

SpecDisabled == InitDisabled /\ [][NextMain]_vars

\* Every ASCII code point, U+00E9, U+FFFF and U+1F600.
FormatKeys == (0 .. 127) \cup {233, 65535, 128512}

\* A session on a keyboard with a single key, any of FormatKeys, without signals.
InitFormat ==
    \E k \in FormatKeys :
        InitWith(UsualModes, <<>>, {k}, {}, SessionDelays, SessionSigactions)

SpecFormat == InitFormat /\ [][NextMain]_vars

\* The time a read can take: 1 us, 199.999 ms and 800 ms.  Consecutive reads add
\* up to 200 ms, 999.999 ms, 1 s and more.
TimingDelays == {1, 199999, 800000}

\* The letter "a".
TimingKeys == {97}

\* A session on this keyboard with these delays, without signals.
InitTiming == InitWith(UsualModes, <<>>, TimingKeys, {}, TimingDelays, SessionSigactions)

SpecTiming == InitTiming /\ [][NextMain]_vars

\* The letter "a": no key of this keyboard sends the interrupt character.
LatchKeys == {97}

\* A session on this keyboard, without signals.
InitLatch == InitWith(UsualModes, <<>>, LatchKeys, {}, SessionDelays, SessionSigactions)

\* The main flow and the interrupt latch.
NextLatch ==
    \/ NextMain
    \/ ReadInterrupted
    \/ LatchInterrupt

SpecLatch == InitLatch /\ [][NextLatch]_vars

(***************************************************************************)
(* Lines 228 and 229 one statement at a time.  MatchKeyName takes the call *)
(* of output_matching_key_name and the flush it guards in one step; here a *)
(* signal can be delivered between the two.                                *)
(***************************************************************************)
\* if (output_matching_key_name(wc))
MatchName ==
    /\ pc = "match"
    /\ LET m == sequence_name(seq_recent, evt, terminfo)
       IN  /\ seq_recent' = m.recent_chars
           /\ name_log' = Append(name_log, m.name)
           /\ out' = out \o output_matching_key_name(m.name)
           /\ pc' = IF m.name # "" THEN "flush" ELSE "exit"
    /\ UNCHANGED <<keep_running, first_char_seen, prev_tstamp, now, bind_chars,
                   exit_recent, evt, interrupted, err, inputs, events,
                   exit_log, flushed, reads_after_stop, calls, chained, delivered, env>>

\* { output_bind_command(bind_chars); }
FlushMatched ==
    /\ pc = "flush"
    /\ LET o == output_bind_command(bind_chars)
       IN  /\ out' = out \o o.printed
           /\ bind_chars' = o.bind_chars
           /\ flushed' = IF o.printed # <<>> THEN Append(flushed, bind_chars) ELSE flushed
    /\ pc' = "exit"
    /\ UNCHANGED <<keep_running, first_char_seen, prev_tstamp, now,
                   exit_recent, seq_recent, evt, interrupted, err, inputs, events,
                   exit_log, name_log, reads_after_stop, calls, chained, delivered, env>>

\* ESC and DEL.
StatementKeys == {27, 127}

\* A signal that does not end the session.
StatementSigs == {SIGWINCH}

\* A session on a terminal with SessionTable in which SIGWINCH is delivered.
InitStatements ==
    InitWith(UsualModes, SessionTable, StatementKeys, StatementSigs, SessionDelays,
             SessionSigactions)

NextStatements ==
    \/ LoopTest
    \/ ReadChar
    \/ ReadNoChar
    \/ NonCharEvent
    \/ CharEvent
    \/ MatchName
    \/ FlushMatched
    \/ ExitCheck
    \/ RestoreTermMode
    \/ RestoreForegroundProcessGroup
    \/ Signal

SpecStatements == InitStatements /\ [][NextStatements]_vars

(***************************************************************************)
(* install_our_signal_handlers, one action per call of its loop, and the   *)
(* signals delivered while it runs.                                        *)
(***************************************************************************)
\* static storage is zero-initialised: a null sa_handler is SIG_DFL and the
\* flags are clear.
ZeroSigactions == [n \in SigNums |-> DefaultSigaction]

\* The signal numbers for which sigaction() returns -1 (SIGKILL and SIGSTOP).
Uncatchable == {9, 19}

\* The dispositions of a process started under nohup from a shell that handles
\* SIGINT with a plain handler and SIGTERM with a three-argument handler.
InstallSigactions ==
    [n \in SigNums |->
        CASE n = SIGHUP -> [sa_handler |-> "SIG_IGN", sa_siginfo |-> FALSE]
          [] n = SIGINT -> [sa_handler |-> "handler", sa_siginfo |-> FALSE]
          [] n = SIGTERM -> [sa_handler |-> "handler", sa_siginfo |-> TRUE]
          [] OTHER -> DefaultSigaction]

\* SIG_IGN, a plain handler, a three-argument handler and SIG_DFL.
InstallSigs == {SIGHUP, SIGINT, SIGTERM, SIGWINCH}

\* The state when setup_and_process_keys calls install_our_signal_handlers.
InitInstall ==
    /\ pc = "sigaction"
    /\ keep_running = TRUE
    /\ continuous_mode \in BOOLEAN
    /\ first_char_seen = FALSE
    /\ prev_tstamp = 0
    /\ now = StartUs
    /\ bind_chars = <<>>
    /\ exit_recent = <<0, 0, 0, 0>>
    /\ seq_recent = <<0, 0, 0, 0, 0, 0, 0, 0>>
    /\ evt = NoChar
    /\ interrupted = FALSE
    /\ shell_modes = UsualModes
    /\ terminfo = <<>>
    /\ old_sigactions = ZeroSigactions
    /\ install_signo = 1
    /\ prior_sigactions = InstallSigactions
    /\ out = <<>>
    /\ err = <<>>
    /\ keys = SignalKeys
    /\ sigs = InstallSigs
    /\ delays = SessionDelays
    /\ inputs = 0
    /\ events = <<>>
    /\ exit_log = <<>>
    /\ name_log = <<>>
    /\ flushed = <<>>
    /\ reads_after_stop = 0
    /\ calls = <<>>
    /\ chained = <<>>
    /\ delivered = <<>>

\* What install_our_signal_handlers and a signal delivered meanwhile leave alone.
session == <<first_char_seen, prev_tstamp, now, bind_chars, exit_recent, seq_recent,
             evt, interrupted, err, inputs, events, exit_log, name_log, flushed,
             reads_after_stop, calls, continuous_mode, shell_modes, terminfo,
             prior_sigactions, keys, sigs, delays>>

\* for (int signo = 1; signo < 32; signo++) if (sigaction(signo, &new_sa, &old_sa) != -1)
\* When the call succeeds signal_handler is the handler of signo from here on
\* and old_sa holds the prior disposition.
InstallSigaction ==
    /\ pc = "sigaction"
    /\ install_signo < 32
    /\ IF install_signo \in Uncatchable
       THEN install_signo' = install_signo + 1 /\ pc' = "sigaction"
       ELSE install_signo' = install_signo /\ pc' = "memcpy"
    /\ UNCHANGED <<keep_running, old_sigactions, out, chained, delivered, session>>

\* std::memcpy(&old_sigactions[signo], &old_sa, sizeof(old_sa)); signo++
InstallMemcpy ==
    /\ pc = "memcpy"
    /\ old_sigactions' = [old_sigactions EXCEPT ![install_signo] = prior_sigactions[install_signo]]
    /\ install_signo' = install_signo + 1
    /\ pc' = "sigaction"
    /\ UNCHANGED <<keep_running, out, chained, delivered, session>>

\* The loop test fails at signo = 32 and the function returns.
InstallReturn ==
    /\ pc = "sigaction"
    /\ install_signo = 32
    /\ pc' = "installed"
    /\ UNCHANGED <<keep_running, old_sigactions, install_signo, out, chained, delivered,
                   session>>

\* signal_handler is the handler of signal n.
OurHandlerInstalled(n) ==
    /\ n \notin Uncatchable
    /\ n < install_signo \/ (n = install_signo /\ pc = "memcpy")

\* What signal_handler can read in old_sigactions[n].  While the memcpy of
\* line 272 for n has not completed, each field holds either its initial zero
\* or the copied value; the reads race with the copy.
SigactionReads(n) ==
    IF n = install_signo /\ pc = "memcpy"
    THEN { [sa_handler |-> h, sa_siginfo |-> f] :
              h \in {old_sigactions[n].sa_handler, prior_sigactions[n].sa_handler},
              f \in {old_sigactions[n].sa_siginfo, prior_sigactions[n].sa_siginfo} }
    ELSE { old_sigactions[n] }

\* Signal n is delivered to signal_handler, which reads v in old_sigactions[n].
InstallSignalHandler(n, v) ==
    /\ pc \in {"sigaction", "memcpy", "installed"}
    /\ OurHandlerInstalled(n)
    /\ Len(delivered) < MaxDeliveries
    /\ out' = Append(out, signal_handler_line(n))
    /\ keep_running' = signal_handler_flag(n, keep_running)
    /\ chained' = chained \o signal_handler_chain(n, [old_sigactions EXCEPT ![n] = v])
    /\ delivered' = Append(delivered, n)
    /\ UNCHANGED <<pc, old_sigactions, install_signo, session>>

InstallSignal == \E n \in sigs : \E v \in SigactionReads(n) : InstallSignalHandler(n, v)

NextInstall ==
    \/ InstallSigaction
    \/ InstallMemcpy
    \/ InstallReturn
    \/ InstallSignal

SpecInstall == InitInstall /\ [][NextInstall]_vars

(***************************************************************************)
(* Helpers of the properties.                                              *)
(***************************************************************************)
\* The character events among the events obtained so far.
CharEvents == SelectSeq(events, LAMBDA e : e # NoChar)

Last(q) == q[Len(q)]

\* The loop of process_input has been left.
LoopEnded == pc \in {"restore_term_mode", "restore_pgrp", "done"}

(***************************************************************************)
(* C1: however the loop of process_input ends, restore_term_mode and       *)
(* restore_term_foreground_process_group are each called exactly once, in  *)
(* this order, after the last event was obtained and before the process    *)
(* exits: nothing is called while the loop runs, and at exit the two calls *)
(* have been made with the final number of events.                         *)
(***************************************************************************)
C1_RestoreExactlyOnce ==
    /\ pc \in {"while", "read", "dispatch", "match", "exit", "restore_term_mode"}
          => calls = <<>>
    /\ pc = "restore_pgrp" => calls = <<<<"restore_term_mode", Len(events)>>>>
    /\ pc = "done" => calls = <<<<"restore_term_mode", Len(events)>>,
                                <<"restore_term_foreground_process_group", Len(events)>>>>

\* The ways the loop ends.
EndedByExitWord == LoopEnded /\ exit_log # <<>> /\ Last(exit_log) /\ IsExitWord(exit_recent)

EndedByDoubledKey ==
    LoopEnded /\ exit_log # <<>> /\ Last(exit_log) /\ ~IsExitWord(exit_recent)

EndedByPause ==
    /\ LoopEnded /\ keep_running /\ events # <<>> /\ Last(events) = NoChar
    /\ ~(exit_log # <<>> /\ Last(exit_log))

EndedBySignal == LoopEnded /\ ~keep_running /\ ~(exit_log # <<>> /\ Last(exit_log))

\* The process has exited after the word "exit" ended the loop.
C1_Witness == pc = "done" /\ EndedByExitWord /\ Len(calls) = 2

SpecSignals == InitSignals /\ [][Next]_vars

(***************************************************************************)
(* C2: a delivery of SIGHUP, SIGTERM, SIGABRT or SIGSEGV, at whatever      *)
(* point of the loop, makes keep_running false; keep_running never becomes *)
(* true again; the loop test that finds it false leaves the loop; and at   *)
(* most one event is read from the queue after keep_running fell.          *)
(***************************************************************************)
TerminatingSet == {1, 6, 11, 15}

C2_StopsWithinOneEvent ==
    [][ /\ (delivered' # delivered /\ Last(delivered') \in TerminatingSet) => ~keep_running'
        /\ ~keep_running => ~keep_running'
        /\ (~keep_running /\ pc = "while" /\ pc' # pc) => pc' = "restore_term_mode"
        /\ reads_after_stop' <= 1 ]_vars

\* The handler ran for SIGSEGV while the loop was blocked in the read, the read
\* returned one more event, and the process has exited.
C2_Witness ==
    /\ pc = "done"
    /\ delivered # <<>> /\ Last(delivered) = SIGSEGV
    /\ reads_after_stop = 1

(***************************************************************************)
(* C3: a delivery of a signal other than SIGHUP, SIGTERM, SIGABRT and      *)
(* SIGSEGV changes neither keep_running nor the two windows, the           *)
(* accumulator, first_char_seen, the previous timestamp or the position of *)
(* the main flow: it adds the report line and the session goes on.  For    *)
(* every such number in 1..31 the handler leaves the flag as it finds it.  *)
(***************************************************************************)
C3_OtherSignalsOnlyReported ==
    [][ /\ (delivered' # delivered /\ Last(delivered') \notin TerminatingSet)
            => /\ UNCHANGED <<keep_running, exit_recent, seq_recent, bind_chars,
                              first_char_seen, prev_tstamp, now, pc, evt, err>>
               /\ Len(out') = Len(out) + 1
        /\ \A signo \in (1 .. 31) \ TerminatingSet :
               signal_handler_flag(signo, keep_running) = keep_running ]_vars

\* SIGWINCH was delivered in the middle of a burst of characters and the loop
\* went back to reading.
C3_Witness ==
    /\ delivered # <<>> /\ Last(delivered) = SIGWINCH
    /\ keep_running /\ first_char_seen /\ bind_chars # <<>>
    /\ exit_recent # <<0, 0, 0, 0>>
    /\ pc = "read"

(***************************************************************************)
(* The bytes the detector has received, from the history of events.        *)
(***************************************************************************)
\* The narrow-cast byte of the k-th character event.
ByteAt(k) == IF CharEvents[k] < 128 THEN CharEvents[k] ELSE 0

\* The narrow-cast bytes of the character events k-3 .. k, for k >= 4.
LastFour(k) == <<ByteAt(k - 3), ByteAt(k - 2), ByteAt(k - 1), ByteAt(k)>>

WordExit == <<101, 120, 105, 116>>

WordQuit == <<113, 117, 105, 116>>

(***************************************************************************)
(* C4: on a character event whose byte is neither the interrupt nor the    *)
(* EOF character, should_exit returns true if and only if the last four    *)
(* bytes received, this one included, are "exit" or "quit".  After         *)
(* e, x, i, t the window is "exit" and the call returns true; one more e   *)
(* makes it "xite" and the call returns false.                             *)
(***************************************************************************)
C4_ExitWordIffLastFour ==
    /\ \A k \in 1 .. Len(exit_log) :
           (ByteAt(k) # shell_modes.VINTR /\ ByteAt(k) # shell_modes.VEOF)
               => (exit_log[k] <=> (k >= 4 /\ LastFour(k) \in {WordExit, WordQuit}))
    /\ should_exit(<<0, 101, 120, 105>>, 116, shell_modes).ret
    /\ ~should_exit(<<101, 120, 105, 116>>, 101, shell_modes).ret
    /\ should_exit(<<101, 120, 105, 116>>, 101, shell_modes).recent_chars
           = <<120, 105, 116, 101>>

\* The fourth character event completed "quit" and the detector returned true.
C4_Witness ==
    /\ Len(exit_log) = 4 /\ exit_log[4]
    /\ LastFour(4) = WordQuit

\* The "press again" warnings printed so far.
Warnings ==
    SelectSeq(err, LAMBDA t : t = PressAgain(shell_modes.VINTR) \/ t = PressAgain(shell_modes.VEOF))

\* The character events so far on which the detector saw the interrupt or the
\* EOF character and returned false.
Refusals ==
    { k \in 1 .. Len(exit_log) :
        ByteAt(k) \in {shell_modes.VINTR, shell_modes.VEOF} /\ ~exit_log[k] }

(***************************************************************************)
(* C5: on a character event that is the interrupt character, should_exit   *)
(* returns true if the immediately preceding character event was the       *)
(* interrupt character too, and otherwise returns false and prints the     *)
(* "press again" warning; the same for the EOF character.                  *)
(***************************************************************************)
C5_DoubledKeyExits ==
    /\ \A k \in 1 .. Len(exit_log) :
           \A s \in {shell_modes.VINTR, shell_modes.VEOF} :
               ByteAt(k) = s => (exit_log[k] <=> (k >= 2 /\ ByteAt(k - 1) = s))
    /\ Len(Warnings) = Cardinality(Refusals)

(***************************************************************************)
(* The window of the detector after the k-th character event, from the     *)
(* history of events: n slots behind the newest byte is the byte received  *)
(* n character events earlier, or the initial zero.                        *)
(***************************************************************************)
SlotBehind(k, n) == IF k - n >= 1 THEN ByteAt(k - n) ELSE 0

WindowAfter(k) == <<SlotBehind(k, 3), SlotBehind(k, 2), SlotBehind(k, 1), SlotBehind(k, 0)>>

(***************************************************************************)
(* C6 as stated: on an interrupt or EOF byte, should_exit returns true     *)
(* exactly when the slot two positions behind the new byte in the window   *)
(* after the push holds the same special character.                        *)
(***************************************************************************)
C6_ComparesTwoBehind ==
    \A k \in 1 .. Len(exit_log) :
        \A s \in {shell_modes.VINTR, shell_modes.VEOF} :
            ByteAt(k) = s => (exit_log[k] <=> SlotBehind(k, 2) = s)

(***************************************************************************)
(* C6 amended: the window after the k-th character event holds the last    *)
(* four bytes received, and on an interrupt or EOF byte should_exit        *)
(* returns true exactly when the slot one position behind the new byte     *)
(* (recent_chars[2]) holds the same special character, whatever the slot   *)
(* two positions behind holds.                                             *)
(***************************************************************************)
C6_ComparesOneBehind ==
    /\ exit_log # <<>> => exit_recent = WindowAfter(Len(exit_log))
    /\ \A k \in 1 .. Len(exit_log) :
           \A s \in {shell_modes.VINTR, shell_modes.VEOF} :
               ByteAt(k) = s => (exit_log[k] <=> SlotBehind(k, 1) = s)

\* ctrl-C, "a", ctrl-C: the slot two behind holds ctrl-C and the detector
\* returned false on the third event.
C6_Witness ==
    /\ Len(exit_log) = 3
    /\ WindowAfter(3) = <<0, 3, 97, 3>>
    /\ shell_modes.VINTR = 3
    /\ ~exit_log[3]

(***************************************************************************)
(* The window of the matcher after the k-th character event, from the      *)
(* history of events, and the names the table gives its suffixes.          *)
(***************************************************************************)
Window8After(k) == [j \in 1 .. 8 |-> SlotBehind(k, 8 - j)]

\* The name of the table for seq, "" when it has none.
NameOf(seq) ==
    IF \E i \in 1 .. Len(terminfo) : terminfo[i].seq = seq
    THEN terminfo[CHOOSE i \in 1 .. Len(terminfo) : terminfo[i].seq = seq].name
    ELSE ""

\* The trailing len bytes of the window after the k-th character event.
Suffix(k, len) == SubSeq(Window8After(k), 9 - len, 8)

\* The lengths of the suffixes that the table names.
NamedLengths(k) == { len \in 1 .. 8 : NameOf(Suffix(k, len)) # "" }

Longest(S) == CHOOSE x \in S : \A y \in S : y <= x

(***************************************************************************)
(* C7: after each character event sequence_name returns the name of the    *)
(* longest suffix of the 8-byte window that the table names, and returns   *)
(* none exactly when the table names no suffix of length 1..8.             *)
(***************************************************************************)
C7_LongestMatchWins ==
    \A k \in 1 .. Len(name_log) :
        IF NamedLengths(k) = {}
        THEN name_log[k] = ""
        ELSE name_log[k] = NameOf(Suffix(k, Longest(NamedLengths(k))))

(***************************************************************************)
(* The text of the line that a flush of chars must write.                  *)
(***************************************************************************)
RECURSIVE Renderings(_)
Renderings(chars) ==
    IF chars = <<>> THEN ""
    ELSE char_to_symbol(Head(chars), TRUE) \o Renderings(Tail(chars))

BindLine(chars) == "bind " \o Renderings(chars) \o " 'do something'\n"

\* This step is the handling of a non-character event.
IsNonCharStep == pc = "dispatch" /\ evt = NoChar /\ pc' # pc

\* This step is the statement of line 228 and the matcher returned a name.
IsMatchStep == pc = "match" /\ pc' # pc /\ Last(name_log') # ""

(***************************************************************************)
(* C8: a character event pushes its code point at the end of the           *)
(* accumulator.  A flush of an accumulator of n >= 1 code points writes    *)
(* exactly one line to stdout, "bind ", the bind-friendly renderings of    *)
(* the code points in push order without separator, " 'do something'",     *)
(* and leaves the accumulator empty; a flush of an empty accumulator       *)
(* writes nothing and changes nothing.  The flush after a match writes its *)
(* line after the line of the match.                                       *)
(***************************************************************************)
C8_FlushWritesOneLine ==
    [][ /\ (pc = "dispatch" /\ evt # NoChar /\ pc' # pc)
            => bind_chars' = bind_chars \o <<evt>>
        /\ IsNonCharStep
            => IF bind_chars # <<>>
               THEN out' = out \o <<BindLine(bind_chars)>> /\ bind_chars' = <<>>
               ELSE out' = out /\ bind_chars' = <<>>
        /\ IsMatchStep
            => /\ bind_chars # <<>>
               /\ Len(out') = Len(out) + 2
               /\ Last(out') = BindLine(bind_chars)
               /\ bind_chars' = <<>>
        /\ output_bind_command(<<3, 233, 32>>).printed
               = <<"bind \\cC\\u00E9\\x20 'do something'\n">>
        /\ output_bind_command(<<>>).printed = <<>> ]_vars

\* ESC, "[", DEL were flushed by a first non-character event as one line and a
\* second non-character event followed: it wrote nothing.
C8_Witness ==
    /\ events = <<27, 91, 127, NoChar, NoChar>>
    /\ pc = "while"
    /\ out = <<"bind -k backspace 'do something'\n", "bind \\e\\[\\x7F 'do something'\n">>
    /\ bind_chars = <<>>

(***************************************************************************)
(* What stdout holds of the accumulator.                                   *)
(***************************************************************************)
\* The lines of stdout that start with "bind " and not with "bind -k ".
BindLines ==
    SelectSeq(out, LAMBDA t : SubSeq(t, 1, 5) = "bind " /\ SubSeq(t, 1, 8) # "bind -k ")

RECURSIVE Flatten(_)
Flatten(qs) == IF qs = <<>> THEN <<>> ELSE Head(qs) \o Flatten(Tail(qs))

\* The last event of the session was a character that completed no terminfo
\* sequence.
LastIsUnmatchedChar ==
    /\ events # <<>> /\ Last(events) # NoChar
    /\ name_log # <<>> /\ Last(name_log) = ""

(***************************************************************************)
(* C9 as stated: once the loop has terminated the accumulator is empty and *)
(* every character event received is in an emitted 'bind' line.            *)
(***************************************************************************)
C9_FlushedAtTermination ==
    LoopEnded => (bind_chars = <<>> /\ Flatten(flushed) = CharEvents)

(***************************************************************************)
(* C9 amended: nothing is flushed when the loop terminates.  Once it has   *)
(* terminated, the 'bind' lines of stdout are the lines of the flushed     *)
(* sequences, and these followed by the accumulator are the character      *)
(* events received, in order.  If the last event was a non-character event *)
(* (a single-shot pause in particular) the accumulator is empty and every  *)
(* character is in a line; if it was a character that completed no         *)
(* terminfo sequence, the accumulator is not empty: it ends with that      *)
(* character and is never emitted.                                         *)
(***************************************************************************)
C9_FlushedOnlyByEvents ==
    LoopEnded =>
        /\ BindLines = [i \in 1 .. Len(flushed) |-> BindLine(flushed[i])]
        /\ Flatten(flushed) \o bind_chars = CharEvents
        /\ (events # <<>> /\ Last(events) = NoChar) => bind_chars = <<>>
        /\ LastIsUnmatchedChar => (bind_chars # <<>> /\ Last(bind_chars) = Last(events))

\* The word "exit" ended the loop and the process has exited with the four
\* letters in the accumulator and nothing on stdout.
C9_Witness ==
    /\ pc = "done"
    /\ EndedByExitWord
    /\ bind_chars = <<101, 120, 105, 116>>
    /\ out = <<>>

(***************************************************************************)
(* C10: a non-character event always empties the accumulator (writing its  *)
(* line if it held something) and leaves the loop if and only if the       *)
(* session is single-shot and a character event has been processed before; *)
(* otherwise the loop goes back to its test.  In continuous mode the loop  *)
(* is left only by should_exit returning true or by the loop test finding  *)
(* keep_running false.                                                     *)
(***************************************************************************)
C10_NonCharEvent ==
    [][ /\ IsNonCharStep
            => /\ bind_chars' = <<>>
               /\ Len(out') = Len(out) + (IF bind_chars # <<>> THEN 1 ELSE 0)
               /\ (pc' = "restore_term_mode") <=> (~continuous_mode /\ CharEvents # <<>>)
               /\ (pc' # "restore_term_mode") => pc' = "while"
        /\ (continuous_mode /\ ~LoopEnded /\ LoopEnded')
            => \/ pc = "exit" /\ Last(exit_log')
               \/ pc = "while" /\ ~keep_running ]_vars

\* Single-shot: a pause before any character did not end the session, the pause
\* after the first character did.
C10_Witness ==
    /\ ~continuous_mode
    /\ events = <<NoChar, 101, NoChar>>
    /\ pc = "done"
    /\ keep_running

(***************************************************************************)
(* The kinds of lines the program writes.                                  *)
(***************************************************************************)
StartsWith(t, prefix) == Len(t) >= Len(prefix) /\ SubSeq(t, 1, Len(prefix)) = prefix

\* A line of the accumulator or of a terminfo match.
IsBindText(t) == StartsWith(t, "bind ")

\* The report line of a signal.
IsSignalText(t) == \E signo \in SigNums : t = signal_handler_line(signo)

\* The prompt, the line of a character, a "press again" warning or the farewell.
IsDiagnosticText(t) ==
    \/ t = "Press a key\n\n"
    \/ StartsWith(t, "hex: ")
    \/ StartsWith(t, "Press [ctrl-")
    \/ t = "\nExiting at your request.\n"

(***************************************************************************)
(* C11: every line on stdout is a 'bind ...' line of the accumulator or a  *)
(* 'bind -k ...' line of a match; the prompt, the lines of the characters, *)
(* the warnings, the farewell and the report lines of the signals are on   *)
(* stderr and never on stdout: stderr holds one report line per signal     *)
(* delivered.                                                              *)
(***************************************************************************)
C11_StdoutOnlyBindLines ==
    /\ \A i \in 1 .. Len(out) : IsBindText(out[i])
    /\ \A i \in 1 .. Len(out) : ~IsSignalText(out[i]) /\ ~IsDiagnosticText(out[i])
    /\ Len(SelectSeq(err, IsSignalText)) = Len(delivered)

(***************************************************************************)
(* The calls of the previous handler that a delivery of signo owes to the  *)
(* disposition the process was started with.                               *)
(***************************************************************************)
OwedCalls(signo) ==
    IF prior_sigactions[signo].sa_handler \in {"SIG_DFL", "SIG_IGN"} THEN <<>>
    ELSE IF prior_sigactions[signo].sa_siginfo THEN <<<<"sa_sigaction", signo>>>>
    ELSE <<<<"sa_handler", signo>>>>

(***************************************************************************)
(* C12: every delivery of a signal to signal_handler, those that interleave *)
(* with install_our_signal_handlers included, calls the previously         *)
(* installed handler exactly once when the prior disposition was neither   *)
(* SIG_DFL nor SIG_IGN, through sa_sigaction if and only if it had         *)
(* SA_SIGINFO, and calls nothing otherwise; old_sigactions is written by   *)
(* the memcpy of the setup only, never by a delivery.                      *)
(***************************************************************************)
C12_ChainsPriorHandlerOnce ==
    [][ /\ delivered' # delivered
            => /\ chained' = chained \o OwedCalls(Last(delivered'))
               /\ old_sigactions' = old_sigactions
        /\ old_sigactions' # old_sigactions => pc = "memcpy" ]_vars

(***************************************************************************)
(* The renderings that the lines of a session must show.                   *)
(***************************************************************************)
\* The lines of stderr that report a character.
HexLines == SelectSeq(err, LAMBDA t : StartsWith(t, "hex: "))

\* The line of stderr for a character whose human rendering is text.
HexLine(wc, text) == "hex: " \o FmtXsp(wc, 4) \o "  char: " \o text \o "\n"

\* The character with code cp + 0x40, for cp in 0 .. 31.
CtrlLetter(cp) == SubSeq("@ABCDEFGHIJKLMNOPQRSTUVWXYZ[\\]^_", cp + 1, cp + 1)

\* The 8 named control code points and their names.
CtrlNamed == {7, 8, 9, 10, 11, 12, 13, 27}

CtrlName(cp) ==
    CASE cp = 7 -> "\\a" [] cp = 8 -> "\\b" [] cp = 9 -> "\\t" [] cp = 10 -> "\\n"
      [] cp = 11 -> "\\v" [] cp = 12 -> "\\f" [] cp = 13 -> "\\r" [] cp = 27 -> "\\e"

CtrlBind(cp) == IF cp \in CtrlNamed THEN CtrlName(cp) ELSE "\\c" \o CtrlLetter(cp)

CtrlHuman(cp) ==
    "\\c" \o CtrlLetter(cp)
        \o (IF cp \in CtrlNamed THEN "  (or " \o CtrlName(cp) \o ")" ELSE "")

RECURSIVE Repeat(_, _)
\* text, n times.
Repeat(text, n) == IF n = 0 THEN "" ELSE text \o Repeat(text, n - 1)

(***************************************************************************)
(* C13: for every control code point 0..31 the bind-friendly rendering is  *)
(* the control name for 7, 8, 9, 10, 11, 12, 13 and 27 and "\c" followed   *)
(* by the character code_point + 0x40 for the 24 others; the human         *)
(* rendering is "\c" followed by that character for all 32, with           *)
(* "  (or <name>)" appended exactly for the 8 named ones.  The lines of a  *)
(* session on a control key show these renderings: every per-character     *)
(* line the human one, every 'bind' line the bind-friendly one, once per   *)
(* accumulated key.                                                        *)
(***************************************************************************)
C13_ControlRenderings ==
    \A cp \in keys \cap (0 .. 31) :
        /\ char_to_symbol(cp, TRUE) = CtrlBind(cp)
        /\ char_to_symbol(cp, FALSE) = CtrlHuman(cp)
        /\ \A i \in 1 .. Len(HexLines) : HexLines[i] = HexLine(cp, CtrlHuman(cp))
        /\ \A i \in 1 .. Len(BindLines) :
               BindLines[i] = "bind " \o Repeat(CtrlBind(cp), Len(flushed[i]))
                                  \o " 'do something'\n"

\* ESC was pressed twice and a pause flushed the accumulator.
C13_Witness ==
    /\ events = <<27, 27, NoChar>>
    /\ pc = "while"
    /\ HexLines = <<"hex:   1B  char: \\c[  (or \\e)\n", "hex:   1B  char: \\c[  (or \\e)\n">>
    /\ out = <<"bind \\e\\e 'do something'\n">>

(***************************************************************************)
(* The printable characters 0x21 .. 0x7E and the shell metacharacters.     *)
(***************************************************************************)
\* The characters 0x21 .. 0x5F and 0x61 .. 0x7E; GraveText stands for 0x60.
Glyph(cp) ==
    IF cp < 96
    THEN SubSeq("!\"#$%&'()*+,-./0123456789:;<=>?@ABCDEFGHIJKLMNOPQRSTUVWXYZ[\\]^_",
                cp - 32, cp - 32)
    ELSE IF cp = 96 THEN GraveText
    ELSE SubSeq("abcdefghijklmnopqrstuvwxyz{|}~", cp - 96, cp - 96)

\* The 18 characters that are written with a backslash in a bind command.
Metacharacters ==
    {"[", "]", "(", ")", "<", ">", "{", "}", "*", "\\", "?", "$", "#", ";", "&", "|",
     "'", "\""}

PrintableBind(cp) == IF Glyph(cp) \in Metacharacters THEN "\\" \o Glyph(cp) ELSE Glyph(cp)

(***************************************************************************)
(* C14: for every code point 0x21..0x7E the bind-friendly rendering is a   *)
(* backslash followed by the character if and only if the character is one *)
(* of the 18 shell metacharacters, and the character alone otherwise; the  *)
(* human rendering is always the character alone.  The lines of a session  *)
(* on a printable key show these renderings.                               *)
(***************************************************************************)
C14_PrintableRenderings ==
    \A cp \in keys \cap (33 .. 126) :
        /\ char_to_symbol(cp, TRUE) = PrintableBind(cp)
        /\ char_to_symbol(cp, FALSE) = Glyph(cp)
        /\ must_escape(cp) <=> Glyph(cp) \in Metacharacters
        /\ \A i \in 1 .. Len(HexLines) : HexLines[i] = HexLine(cp, Glyph(cp))
        /\ \A i \in 1 .. Len(BindLines) :
               BindLines[i] = "bind " \o Repeat(PrintableBind(cp), Len(flushed[i]))
                                  \o " 'do something'\n"

\* The double quote was pressed twice and a pause flushed the accumulator.
C14_Witness ==
    /\ events = <<34, 34, NoChar>>
    /\ pc = "while"
    /\ HexLines = <<"hex:   22  char: \"\n", "hex:   22  char: \"\n">>
    /\ out = <<"bind \\\"\\\" 'do something'\n">>

(***************************************************************************)
(* C15: on a character event that completes a terminfo sequence the        *)
(* 'bind -k <name>' line is written first and the flush line of the        *)
(* accumulator directly after it on stdout; that line holds every          *)
(* character accumulated since the previous flush, the character that      *)
(* completed the match included, and the accumulator is empty when the     *)
(* exit detector runs on that character.                                   *)
(***************************************************************************)
C15_MatchLineThenFlushLine ==
    /\ \A i \in 1 .. Len(out) :
           StartsWith(out[i], "bind -k ")
               => IF i = Len(out) THEN pc = "flush"
                  ELSE IsBindText(out[i + 1]) /\ ~StartsWith(out[i + 1], "bind -k ")
    /\ (pc = "exit" /\ Last(name_log) # "")
           => /\ bind_chars = <<>>
              /\ Last(out) = BindLine(Last(flushed))
              /\ Last(Last(flushed)) = evt
              /\ Flatten(flushed) = CharEvents

(***************************************************************************)
(* C16: when the latch is set at the start of an iteration the loop clears *)
(* it, reads nothing from the queue (no input is consumed and no time      *)
(* passes) and takes the interrupt character as the event of the           *)
(* iteration.  The event then goes the way of a typed character: it is     *)
(* pushed on the accumulator, on the matcher window and on the exit        *)
(* window.  On a keyboard that cannot send the interrupt character, an     *)
(* interrupt event whose preceding character event was an interrupt event  *)
(* too makes should_exit return true and ends the loop.                    *)
(***************************************************************************)
C16_LatchedInterruptIsACharacter ==
    [][ /\ (pc = "read" /\ interrupted /\ pc' # pc)
            => /\ ~interrupted'
               /\ evt' = shell_modes.VINTR
               /\ events' = Append(events, shell_modes.VINTR)
               /\ inputs' = inputs /\ now' = now
               /\ pc' = "dispatch"
        /\ (pc = "dispatch" /\ evt = shell_modes.VINTR /\ pc' # pc)
            => bind_chars' = Append(bind_chars, shell_modes.VINTR) /\ pc' = "match"
        /\ (pc = "match" /\ evt = shell_modes.VINTR /\ pc' # pc)
            => seq_recent' = Shift(seq_recent, shell_modes.VINTR) /\ pc' = "exit"
        /\ (pc = "exit" /\ evt = shell_modes.VINTR /\ pc' # pc)
            => /\ exit_recent' = Shift(exit_recent, shell_modes.VINTR)
               /\ (Len(CharEvents) >= 2 /\ CharEvents[Len(CharEvents) - 1] = shell_modes.VINTR)
                      => (Last(exit_log') /\ pc' = "restore_term_mode") ]_vars

\* Two interrupts were latched and nothing was read: the second ended the
\* session.
C16_Witness ==
    /\ events = <<3, 3>>
    /\ shell_modes.VINTR \notin keys
    /\ inputs = 2 /\ now = StartUs
    /\ exit_log = <<FALSE, TRUE>>
    /\ pc = "done"

(***************************************************************************)
(* The text of the elapsed time.                                           *)
(***************************************************************************)
Digit(k) == SubSeq("0123456789", k + 1, k + 1)

\* n < 1000 in three columns, filled with spaces on the left.
ThreeColumns(n) ==
    IF n < 10 THEN "  " \o Digit(n)
    ELSE IF n < 100 THEN " " \o Digit(n \div 10) \o Digit(n % 10)
    ELSE Digit(n \div 100) \o Digit((n \div 10) % 10) \o Digit(n % 10)

\* n < 1000 in three digits.
ThreeDigits(n) == Digit(n \div 100) \o Digit((n \div 10) % 10) \o Digit(n % 10)

\* The text for a delta of d microseconds.
ElapsedText(d) ==
    IF d >= 1000000 THEN Repeat(" ", 14)
    ELSE "(" \o ThreeColumns(d \div 1000) \o "." \o ThreeDigits(d % 1000) \o " ms)  "

\* This step is the handling of a character event up to its line on stderr.
IsCharStep == pc = "dispatch" /\ evt # NoChar /\ pc' # pc

(***************************************************************************)
(* C17: on every character event, with d the microseconds since the        *)
(* previous character event (since time 0 for the first one), stderr gets  *)
(* a line break first if and only if d >= 200000 and an earlier character  *)
(* event has been processed, then 14 spaces if d >= 1000000 and otherwise  *)
(* "(", d div 1000, ".", d mod 1000 in three digits, " ms)", and then the   *)
(* line of the character; prev_tstamp becomes the current time.  No other  *)
(* step, a non-character event in particular, changes prev_tstamp.  A      *)
(* delta of 250000 after a character gives the line break and              *)
(* "(250.000 ms)", a delta of 1500000 gives 14 spaces.                     *)
(***************************************************************************)
C17_ElapsedTime ==
    [][ /\ IsCharStep
            => LET d == now - prev_tstamp
                   break == d >= 200000 /\ exit_log # <<>>
               IN  /\ err' = err \o (IF break THEN <<"\n">> ELSE <<>>)
                                 \o <<ElapsedText(d), output_info_about_char(evt)>>
                   /\ prev_tstamp' = now
        /\ ~IsCharStep => prev_tstamp' = prev_tstamp
        /\ output_elapsed_time(0, TRUE, 250000) = <<"\n", "(250.000 ms)  ">>
        /\ output_elapsed_time(0, TRUE, 1500000) = <<"\n", Repeat(" ", 14)>>
        /\ output_elapsed_time(0, FALSE, 1500000) = <<Repeat(" ", 14)>> ]_vars

\* Continuous mode: "a", then a read of 199.999 ms that timed out, then "a"
\* after 1 us more: the delta is 200 ms.
C17_Witness ==
    /\ events = <<97, NoChar, 97>>
    /\ pc = "match"
    /\ prev_tstamp = now
    /\ Len(err) >= 3
    /\ SubSeq(err, Len(err) - 2, Len(err))
           = <<"\n", "(200.000 ms)  ", "hex:   61  char: a\n">>

(***************************************************************************)
(* The character that readch_timed has returned and line 226 has not yet   *)
(* pushed on the accumulator.                                              *)
(***************************************************************************)
InHand == IF pc = "dispatch" /\ evt # NoChar THEN <<evt>> ELSE <<>>

(***************************************************************************)
(* C18: at every point of a session the 'bind <sequence>' lines of stdout  *)
(* are the lines of the sequences flushed so far, and these sequences in   *)
(* order, followed by the accumulator (and by the character just read that *)
(* is about to be pushed), are the character events received so far in     *)
(* arrival order: nothing is emitted twice, dropped or reordered, whatever *)
(* the interleaving of timeouts, matches, latched interrupts and signals.  *)
(***************************************************************************)
C18_EmittedThenAccumulated ==
    /\ BindLines = [i \in 1 .. Len(flushed) |-> BindLine(flushed[i])]
    /\ Flatten(flushed) \o bind_chars \o InHand = CharEvents

\* ESC was flushed by a pause, DEL by its match, and ctrl-C and ESC are in the
\* accumulator.
C18_Witness ==
    /\ events = <<27, NoChar, 127, 3, 27>>
    /\ flushed = << <<27>>, <<127>> >>
    /\ bind_chars = <<3, 27>>
    /\ out = <<"bind \\e 'do something'\n", "bind -k backspace 'do something'\n",
               "bind \\x7F 'do something'\n">>

(***************************************************************************)
(* C19: the handling of a non-character event changes neither the window   *)
(* of should_exit nor the window of sequence_name: the windows hold the    *)
(* bytes of the last character events, however many timeouts lie between   *)
(* them.  So an interrupt or EOF character whose preceding character event *)
(* was the same character makes should_exit return true, and so does the   *)
(* last byte of "exit" or "quit", with any number of timeouts in between.  *)
(***************************************************************************)
C19_TimeoutsLeaveWindows ==
    [][ /\ IsNonCharStep => (exit_recent' = exit_recent /\ seq_recent' = seq_recent)
        /\ exit_log # <<>> => exit_recent = WindowAfter(Len(exit_log))
        /\ name_log # <<>> => seq_recent = Window8After(Len(name_log))
        /\ \A k \in 2 .. Len(exit_log) :
               (ByteAt(k) \in {shell_modes.VINTR, shell_modes.VEOF} /\ ByteAt(k - 1) = ByteAt(k))
                   => exit_log[k]
        /\ \A k \in 4 .. Len(exit_log) :
               LastFour(k) \in {WordExit, WordQuit} => exit_log[k] ]_vars

\* Continuous mode: "ex", a timeout, "it": the detector returned true on "t".
C19_Witness ==
    /\ continuous_mode
    /\ events = <<101, 120, NoChar, 105, 116>>
    /\ exit_log = <<FALSE, FALSE, FALSE, TRUE>>
    /\ pc = "done"

(***************************************************************************)
(* C20: whatever the interrupt and EOF characters of the terminal and      *)
(* whatever the code point, the first character event never makes          *)
(* should_exit return true: a return of true takes at least two character  *)
(* events when the byte is the interrupt or the EOF character, and at      *)
(* least four otherwise.                                                   *)
(***************************************************************************)
C20_FirstEventNeverExits ==
    \A k \in 1 .. Len(exit_log) :
        exit_log[k]
            => IF ByteAt(k) \in {shell_modes.VINTR, shell_modes.VEOF} THEN k >= 2 ELSE k >= 4

====
